---------------------------- MODULE Spec2Model ----------------------------
(***************************************************************************)
(* A model of mbutiles (src/src/mbtiles.rs): the conversion of a tile      *)
(* archive between an MBTiles container (four SQLite tables) and a         *)
(* directory tree of tile files.                                           *)
(*                                                                         *)
(* Representation.                                                         *)
(*  - A character is a string of length one; a text, a path component or   *)
(*    a file content is a sequence of characters.  A tile's bytes are a    *)
(*    one-element sequence holding an opaque blob name.                    *)
(*  - A u32 is represented by the integer that has the same 32-bit         *)
(*    pattern in two's complement: v itself below 2^31, v - 2^32 from      *)
(*    2^31 on.  The container stores the value as i64, export reads it     *)
(*    back as i32 and casts it to u32, so the bit pattern is all the       *)
(*    program ever carries.                                                *)
(*  - Arithmetic overflow of a u32 is decided by the build: with overflow  *)
(*    checks (a debug build, the build of `cargo test`) it panics, without *)
(*    them (a release build) it wraps.  The build is the state variable    *)
(*    overflow_checks, chosen in Init.                                     *)
(*  - A JSON value is a record [k, s, a, o]: k its kind, s the text of a   *)
(*    string or number, a the items of an array, o the members of an       *)
(*    object (a function from member names to values).                     *)
(***************************************************************************)
EXTENDS Integers, Sequences, FiniteSets, TLC

VARIABLES
    disk,             \* directory name -> [exists, files]
    store,            \* container name -> [exists, tiles, metadata, grids, grid_data]
    flags,            \* the command line: [scheme, image_format, grid_callback]
    overflow_checks,  \* TRUE: arithmetic overflow panics; FALSE: it wraps
    calls,            \* the calls of import and export so far, with what they returned
    calc              \* the inputs and results of the pure functions under check

vars == <<disk, store, flags, overflow_checks, calls, calc>>

----------------------------------------------------------------------------
(* Sequences *)

Range(s) == {s[i] : i \in 1..Len(s)}

Last(s) == s[Len(s)]

Front(s) == SubSeq(s, 1, Len(s) - 1)

RECURSIVE Flatten(_)
Flatten(ss) == IF ss = <<>> THEN <<>> ELSE Head(ss) \o Flatten(Tail(ss))

\* s with every occurrence of the character c removed: str::replace(c, "")
Remove(s, c) == SelectSeq(s, LAMBDA ch : ch # c)

IsPrefix(p, s) == Len(p) <= Len(s) /\ SubSeq(s, 1, Len(p)) = p

\* str::split(c): the pieces of s between the occurrences of c
RECURSIVE Split(_, _)
Split(s, c) ==
    IF \A i \in 1..Len(s) : s[i] # c
    THEN <<s>>
    ELSE LET i == CHOOSE j \in 1..Len(s) :
                      s[j] = c /\ \A h \in 1..(j - 1) : s[h] # c
         IN <<SubSeq(s, 1, i - 1)>> \o Split(SubSeq(s, i + 1, Len(s)), c)

\* every sequence of length at most n over the set S
RECURSIVE SeqsUpTo(_, _)
SeqsUpTo(S, n) ==
    IF n = 0 THEN {<<>>}
    ELSE LET shorter == SeqsUpTo(S, n - 1)
         IN shorter \cup {Append(s, x) : s \in shorter, x \in S}

\* every ordering of the finite set S
RECURSIVE Orderings(_)
Orderings(S) ==
    IF S = {} THEN {<<>>}
    ELSE UNION {{<<x>> \o t : t \in Orderings(S \ {x})} : x \in S}

----------------------------------------------------------------------------
(* 32-bit integers *)

MaxI32 == 2147483647

MinI32 == -MaxI32 - 1

\* a < b as u32, on the two's-complement representatives
ULt(a, b) ==
    IF (a >= 0) = (b >= 0) THEN a < b ELSE a >= 0

\* x as i32 / d and x as i32 % d: Rust truncates toward zero
TruncDiv(a, d) == IF a >= 0 THEN a \div d ELSE -((-a) \div d)

TruncRem(a, d) == a - d * TruncDiv(a, d)

----------------------------------------------------------------------------
(* Numerals *)

DigitChars == <<"0", "1", "2", "3", "4", "5", "6", "7", "8", "9",
                "a", "b", "c", "d", "e", "f">>

UpperHex == <<"A", "B", "C", "D", "E", "F">>

\* char::to_digit(radix): the digit a character stands for, -1 when none
DigitVal(c, radix) ==
    LET v == IF \E i \in 1..16 : DigitChars[i] = c
             THEN (CHOOSE i \in 1..16 : DigitChars[i] = c) - 1
             ELSE IF \E i \in 1..6 : UpperHex[i] = c
             THEN (CHOOSE i \in 1..6 : UpperHex[i] = c) + 9
             ELSE -1
    IN IF v < radix THEN v ELSE -1

\* the decimal digits of n >= 0
RECURSIVE Dec(_)
Dec(n) == IF n < 10 THEN <<DigitChars[n + 1]>>
          ELSE Append(Dec(n \div 10), DigitChars[(n % 10) + 1])

\* digits left-padded with zeros to the width w: the {:0w} of format!
RECURSIVE ZeroPad(_, _)
ZeroPad(digits, w) ==
    IF Len(digits) >= w THEN digits ELSE ZeroPad(<<"0">> \o digits, w)

\* i32::to_string and format!("{}", i32)
FmtI32(n) ==
    IF n >= 0 THEN Dec(n)
    ELSE IF n = MinI32 THEN <<"-">> \o Dec(214748364) \o <<"8">>
    ELSE <<"-">> \o Dec(-n)

\* format!("{:0w}", i32): the sign counts in the width
FmtI32Pad(n, w) ==
    IF n >= 0 THEN ZeroPad(Dec(n), w)
    ELSE <<"-">> \o ZeroPad(Tail(FmtI32(n)), w - 1)

\* u32::to_string of the u32 whose representative is r: for r < 0 the value
\* is 2^32 + r = 4294 * 10^6 + 967296 + r, computed in two halves
FmtU32(r) ==
    IF r >= 0 THEN Dec(r)
    ELSE LET m  == -(r + 1)              \* 0 .. 2^31 - 1
             a  == m \div 1000000
             b  == m % 1000000
             lo == 967295 - b
         IN IF lo >= 0
            THEN Dec(4294 - a) \o ZeroPad(Dec(lo), 6)
            ELSE Dec(4293 - a) \o ZeroPad(Dec(lo + 1000000), 6)

\* the value of a digit string in the given radix; digits has no more than
\* nine characters, so the value fits
RECURSIVE DigitsValue(_, _)
DigitsValue(digits, radix) ==
    IF digits = <<>> THEN 0
    ELSE DigitsValue(Front(digits), radix) * radix + DigitVal(Last(digits), radix)

RECURSIVE StripZeros(_)
StripZeros(s) ==
    IF Len(s) > 1 /\ Head(s) = "0" THEN StripZeros(Tail(s)) ELSE s

\* u32::from_str_radix: [ok, v].  An empty string, a character that is no
\* digit of the radix and a value above u32::MAX are errors.
from_str_radix(s, radix) ==
    LET bad == [ok |-> FALSE, v |-> 0]
        d   == StripZeros(s)
    IN IF s = <<>> \/ \E i \in 1..Len(s) : DigitVal(s[i], radix) < 0 THEN bad
       ELSE IF radix = 16
       THEN IF Len(d) > 8 THEN bad
            ELSE IF Len(d) < 8 \/ DigitVal(d[1], 16) < 8
            THEN [ok |-> TRUE, v |-> DigitsValue(d, 16)]
            ELSE [ok |-> TRUE,
                  v  |-> ((DigitVal(d[1], 16) - 16) * 268435456)
                         + DigitsValue(Tail(d), 16)]
       ELSE IF Len(d) > 10 THEN bad
       ELSE IF Len(d) < 10 THEN [ok |-> TRUE, v |-> DigitsValue(d, 10)]
       ELSE LET hi == DigitsValue(SubSeq(d, 1, 4), 10)
                lo == DigitsValue(SubSeq(d, 5, 10), 10)
            IN IF hi < 2147 \/ (hi = 2147 /\ lo <= 483647)
               THEN [ok |-> TRUE, v |-> hi * 1000000 + lo]
               ELSE IF hi < 4294 \/ (hi = 4294 /\ lo <= 967295)
               THEN [ok |-> TRUE, v |-> (hi - 4294) * 1000000 + (lo - 967296)]
               ELSE bad

----------------------------------------------------------------------------
(* Coordinate transform *)

\* 2u32.pow(zoom): [panic, v].  2^32 and above do not fit a u32.
pow2(checks, zoom) ==
    IF zoom >= 0 /\ zoom < 31 THEN [panic |-> FALSE, v |-> 2 ^ zoom]
    ELSE IF zoom = 31 THEN [panic |-> FALSE, v |-> MinI32]
    ELSE [panic |-> checks, v |-> 0]

\* a - b on u32: [panic, v].  It overflows when a < b as u32.
sub_u32(checks, a, b) ==
    IF ULt(a, b) THEN [panic |-> checks, v |-> a - b]
    ELSE [panic |-> FALSE, v |-> a - b]

\* a mutant of flip_y: 2^zoom - y, the "- 1" forgotten
flip_y_off_by_one(checks, zoom, y) ==
    LET p == pow2(checks, zoom)
        r == sub_u32(checks, p.v, y)
    IN [panic |-> p.panic \/ r.panic, v |-> r.v]

\* fn flip_y(zoom: u32, y: u32) -> u32 { 2u32.pow(zoom) - 1 - y }
flip_y(checks, zoom, y) ==
    LET p == pow2(checks, zoom)
        q == sub_u32(checks, p.v, 1)
        r == sub_u32(checks, q.v, y)
    IN [panic |-> p.panic \/ q.panic \/ r.panic, v |-> r.v]

----------------------------------------------------------------------------
(* Texts *)

\* the characters of the model in byte order: String's Ord is byte order
Ascii == <<" ", "\"", "(", ")", "+", ",", "-", ".", "/",
           "0", "1", "2", "3", "4", "5", "6", "7", "8", "9",
           ":", ";", "=",
           "A", "B", "C", "D", "E", "F", "L", "R",
           "[", "\\", "]", "_",
           "a", "b", "c", "d", "e", "f", "g", "i", "j", "k", "l", "m", "n",
           "o", "p", "r", "s", "t", "u", "v", "w", "x", "y",
           "{", "}">>

Code(c) == CHOOSE i \in 1..Len(Ascii) : Ascii[i] = c

\* a < b for two Strings
RECURSIVE NameLess(_, _)
NameLess(a, b) ==
    IF b = <<>> THEN FALSE
    ELSE IF a = <<>> THEN TRUE
    ELSE IF Head(a) = Head(b) THEN NameLess(Tail(a), Tail(b))
    ELSE Code(Head(a)) < Code(Head(b))

\* the names of S in ascending order: the iteration order of a BTreeMap
RECURSIVE SortedNames(_)
SortedNames(S) ==
    IF S = {} THEN <<>>
    ELSE LET m == CHOOSE x \in S : \A y \in S \ {x} : NameLess(x, y)
         IN <<m>> \o SortedNames(S \ {m})

\* the pieces joined with sep between them
RECURSIVE Join(_, _)
Join(pieces, sep) ==
    IF pieces = <<>> THEN <<>>
    ELSE IF Len(pieces) = 1 THEN pieces[1]
    ELSE pieces[1] \o sep \o Join(Tail(pieces), sep)

----------------------------------------------------------------------------
(* JSON: rustc_serialize::json::Json *)

JStr(s) == [k |-> "str", s |-> s, a |-> <<>>, o |-> <<>>]

JNum(s) == [k |-> "num", s |-> s, a |-> <<>>, o |-> <<>>]

JArr(a) == [k |-> "arr", s |-> <<>>, a |-> a, o |-> <<>>]

JObj(o) == [k |-> "obj", s |-> <<>>, a |-> <<>>, o |-> o]

JNull == [k |-> "null", s |-> <<>>, a |-> <<>>, o |-> <<>>]

\* the members of the object o without the member called name
Without(o, name) == [n \in DOMAIN o \ {name} |-> o[n]]

\* the members of the object o with the member called name set to value
With(o, name, value) ==
    [n \in DOMAIN o \cup {name} |-> IF n = name THEN value ELSE o[n]]

\* a string between quotes, its quotes and backslashes escaped
Quoted(s) ==
    <<"\"">>
    \o Flatten([i \in 1..Len(s) |->
                    IF s[i] = "\"" \/ s[i] = "\\" THEN <<"\\", s[i]>> ELSE <<s[i]>>])
    \o <<"\"">>

\* Json::to_string and json::encode: the compact text, the members of an
\* object in the order of their names
RECURSIVE ToJsonText(_)
ToJsonText(j) ==
    CASE j.k = "str"  -> Quoted(j.s)
      [] j.k = "num"  -> j.s
      [] j.k = "null" -> <<"n", "u", "l", "l">>
      [] j.k = "arr"  ->
            <<"[">> \o Join([i \in 1..Len(j.a) |-> ToJsonText(j.a[i])], <<",">>) \o <<"]">>
      [] j.k = "obj"  ->
            LET names == SortedNames(DOMAIN j.o)
            IN <<"{">>
               \o Join([i \in 1..Len(names) |->
                           Quoted(names[i]) \o <<":">> \o ToJsonText(j.o[names[i]])],
                       <<",">>)
               \o <<"}">>

----------------------------------------------------------------------------
(* The JSON values and texts of the model *)

MaxKeys == 2

N_grid == <<"g", "r", "i", "d">>

N_keys == <<"k", "e", "y", "s">>

N_data == <<"d", "a", "t", "a">>

\* the names a grid's keys array and data object draw from
KeyNames == {<<>>, <<"a">>, <<"k", "1">>}

DataValues == {JNum(<<"4", "2">>), JNum(<<"7">>)}

MetaNames == {<<"n">>, <<"v">>}

MetaValues == {JStr(<<"x">>), JStr(<<"y">>)}

\* every object whose member names are among Names and whose values are in Values
ObjectsOver(Names, Values) ==
    UNION {{JObj(f) : f \in [D -> Values]} : D \in SUBSET Names}

KeysArrays == {JArr(a) : a \in SeqsUpTo({JStr(n) : n \in KeyNames}, MaxKeys)}

\* what a grid object may hold as "keys": an array of strings, or a string
KeysChoices == KeysArrays \cup {JStr(<<"k", "1">>)}

\* what a grid object may hold as "data": an object, or a number
DataChoices == ObjectsOver(KeyNames \ {<<>>}, DataValues) \cup {JNum(<<"7">>)}

\* the object with the members grid, keys and data; JNull stands for a member
\* that is left out
GridObject(grid, keys, data) ==
    LET m == [n \in {N_grid, N_keys, N_data} |->
                 IF n = N_grid THEN grid ELSE IF n = N_keys THEN keys ELSE data]
    IN JObj([n \in {x \in DOMAIN m : m[x] # JNull} |-> m[n]])

\* the grid objects: "grid", "keys" and "data", each present or not
GridObjects ==
    {GridObject(g, k, d) : g \in {JArr(<<>>), JNull},
                           k \in KeysChoices \cup {JNull},
                           d \in DataChoices \cup {JNull}}

\* a grid object with a string that is shaped like a call:
\* {"a":"f({})","grid":[],"keys":[]}
CallShapedObject ==
    JObj([n \in {<<"a">>, N_grid, N_keys} |->
             IF n = <<"a">> THEN JStr(<<"f", "(", "{", "}", ")">>) ELSE JArr(<<>>)])

\* the JSON values whose compact text the model reads
JsonUniverse ==
    GridObjects
    \cup {CallShapedObject}
    \cup ObjectsOver(MetaNames, MetaValues \cup {JNum(<<"7">>)})
    \cup DataValues \cup MetaValues \cup {JArr(<<>>), JNull}

\* each value of JsonUniverse with its compact text
JsonTexts == {<<ToJsonText(j), j>> : j \in JsonUniverse}

\* Json::from_str on the compact texts of JsonUniverse: the inverse of
\* ToJsonText there; any other text is a syntax error
ParseTable ==
    [t \in {p[1] : p \in JsonTexts} |-> (CHOOSE p \in JsonTexts : p[1] = t)[2]]

from_str(text) ==
    IF text \in DOMAIN ParseTable
    THEN [ok |-> TRUE, json |-> ParseTable[text]]
    ELSE [ok |-> FALSE, json |-> JNull]

----------------------------------------------------------------------------
(* The JSONP wrapper and the compression of a grid *)

Letters == {"A", "B", "C", "D", "E", "F", "L", "R",
            "a", "b", "c", "d", "e", "f", "g", "i", "j", "k", "l", "m", "n",
            "o", "p", "r", "s", "t", "u", "v", "w", "x", "y"}

\* the class [\w\s=+-/]: word characters, white space, '=' and '+' to '/'
CallChars ==
    Letters \cup {DigitChars[i] : i \in 1..10} \cup {"_", " ", "=", "+", ",", "-", ".", "/"}

\* the capture of the regex [\w\s=+-/]+\((\{(.|\n)*\})\);? in text, or text when
\* it does not match.  The match is the leftmost one: a "(" that follows a
\* character of the class and is followed by "{", with a "})" after it; the
\* capture runs from that "{" to the last "}" that a ")" follows.
unwrap_jsonp(text) ==
    LET n      == Len(text)
        closes == {j \in 1..(n - 1) : text[j] = "}" /\ text[j + 1] = ")"}
        opens  == {q \in 2..(n - 1) :
                      /\ text[q] = "("
                      /\ text[q - 1] \in CallChars
                      /\ text[q + 1] = "{"
                      /\ \E j \in closes : j >= q + 2}
    IN IF opens = {} THEN text
       ELSE LET q == CHOOSE x \in opens : \A y \in opens : x <= y
                j == CHOOSE x \in closes : \A y \in closes : y <= x
            IN SubSeq(text, q + 1, j)

\* ZlibEncoder: the compressed bytes of a text, marked as such
deflate(text) == <<"zlib">> \o text

\* ZlibDecoder::read_to_string: [ok, text]; bytes that are no zlib stream fail
inflate(bytes) ==
    IF bytes # <<>> /\ Head(bytes) = "zlib"
    THEN [ok |-> TRUE, text |-> Tail(bytes)]
    ELSE [ok |-> FALSE, text |-> <<>>]

----------------------------------------------------------------------------
(* The container and the directory tree *)

Schemes == {"Xyz", "Tms", "Wms", "Ags"}

\* fn get_extension(image_format: ImageFormat) -> &'static str
get_extension(image_format) ==
    CASE image_format = "Jpg"  -> <<"j", "p", "g">>
      [] image_format = "Pbf"  -> <<"p", "b", "f">>
      [] image_format = "Png"  -> <<"p", "n", "g">>
      [] image_format = "Webp" -> <<"w", "e", "b", "p">>

MetadataJson == <<"m", "e", "t", "a", "d", "a", "t", "a", ".", "j", "s", "o", "n">>

\* format!("{}.grid.json", y)
GridJson(stem) == stem \o <<".", "g", "r", "i", "d", ".", "j", "s", "o", "n">>

\* a path that is no file and no directory
NoDir == [exists |-> FALSE, files |-> {}]

\* a path that is no file
NoStore == [exists |-> FALSE, schema |-> FALSE,
            tiles |-> <<>>, metadata |-> <<>>, grids |-> <<>>, grid_data |-> <<>>]

\* mbtiles_setup: the four tables, empty.  CREATE TABLE fails when the
\* container already has them.
mbtiles_setup(db) ==
    IF db.schema THEN [ok |-> FALSE, db |-> db]
    ELSE [ok |-> TRUE,
          db |-> [exists |-> TRUE, schema |-> TRUE,
                  tiles |-> <<>>, metadata |-> <<>>, grids |-> <<>>, grid_data |-> <<>>]]

Address(r) == <<r.zoom, r.column, r.row>>

\* the content of the file at path, <<>> when there is none
FileAt(files, path) ==
    IF \E f \in files : f.path = path
    THEN (CHOOSE f \in files : f.path = path).content
    ELSE <<>>

HasFile(files, path) == \E f \in files : f.path = path

\* fn is_visible(entry: &DirEntry) -> bool
is_visible(name) == name = <<>> \/ Head(name) # "."

\* what the walker yields: the files at depth 1 to 3 with no hidden
\* component on their path (filter_entry prunes a hidden directory)
WalkDepth == 3

Walked(files) ==
    {f \in files : /\ Len(f.path) >= 1
                   /\ Len(f.path) <= WalkDepth
                   /\ \A i \in 1..Len(f.path) : is_visible(f.path[i])}

\* the orders in which the walker may yield them: the order of a directory's
\* entries is the file system's, and a directory is finished before its
\* next sibling is entered
WalkOrders(files) ==
    {o \in Orderings(Walked(files)) :
        \A i, j, h \in 1..Len(o) : \A n \in 1..(WalkDepth - 1) :
            (i < j /\ j < h /\ Len(o[i].path) > n /\ Len(o[h].path) > n
             /\ SubSeq(o[i].path, 1, n) = SubSeq(o[h].path, 1, n))
            => (Len(o[j].path) > n /\ SubSeq(o[j].path, 1, n) = SubSeq(o[i].path, 1, n))}

----------------------------------------------------------------------------
(* Import: directory tree -> container.

   An operator that reads a result more than once takes it as a parameter
   (Metadata of the parsed file, Decoded of the parsed components, ...): the
   result is then computed once. *)

Done(res, error, db) == [res |-> res, error |-> error, db |-> db]

\* the rows of metadata for the members of an object, in the order of their
\* names, up to the first member that is no string
MetadataRows(o, names) ==
    LET bad == {i \in 1..Len(names) : o[names[i]].k # "str"}
        n   == IF bad = {} THEN Len(names)
               ELSE (CHOOSE i \in bad : \A j \in bad : i <= j) - 1
    IN [res  |-> IF bad = {} THEN "ok" ELSE "err",
        rows |-> [i \in 1..n |-> [name |-> names[i], value |-> o[names[i]].s]]]

\* insert_metadata once metadata.json is read and parsed.  The members are
\* inserted one by one, each in its own transaction: those before a member
\* that is no string stay.  A value that is no object is passed over.
Metadata(db, data) ==
    IF ~data.ok THEN Done("err", "Json", db)
    ELSE IF data.json.k # "obj" THEN Done("ok", "", db)
    ELSE LET m == MetadataRows(data.json.o, SortedNames(DOMAIN data.json.o))
         IN Done(m.res,
                 IF m.res = "ok" THEN "" ELSE "metadata object has a non string value",
                 [db EXCEPT !.metadata = db.metadata \o m.rows])

\* fn insert_metadata(input, connection): [res, error, db].  input is a
\* directory here (import has checked it), so the is_file() test is false and
\* metadata.json is opened whether it is there or not.
insert_metadata(db, files) ==
    IF ~HasFile(files, <<MetadataJson>>)
    THEN Done("err", "Can't open metadata.json", db)
    ELSE Metadata(db, from_str(FileAt(files, <<MetadataJson>>)))

\* fn parse_zoom_dir(component, flag_scheme) -> Result<u32>: [ok, v]
parse_zoom_dir(component, flag_scheme) ==
    from_str_radix(IF flag_scheme = "Ags" THEN Remove(component, "L") ELSE component, 10)

\* fn parse_image_dir(component, flag_scheme) -> Result<u32>: [ok, v]
parse_image_dir(component, flag_scheme) ==
    from_str_radix(IF flag_scheme = "Ags" THEN Remove(component, "R") ELSE component,
                   IF flag_scheme = "Ags" THEN 16 ELSE 10)

\* fn insert_image_sqlite(image_path, zoom, column, row, connection): the
\* unique index tile_index refuses a second row at the same address
insert_image_sqlite(db, buffer, zoom, column, row) ==
    IF \E t \in Range(db.tiles) : Address(t) = <<zoom, column, row>>
    THEN Done("err", "Can't insert", db)
    ELSE Done("ok", "",
              [db EXCEPT !.tiles =
                  Append(db.tiles, [zoom |-> zoom, column |-> column, row |-> row,
                                    data |-> buffer])])

\* the strings of a keys array, in the array's order
KeyStrings(strs) == [i \in 1..Len(strs) |-> strs[i].s]

\* a mutant of FilteredKeys: the empty string is not filtered out
FilteredKeys_with_empty(keys_array) ==
    KeyStrings(SelectSeq(keys_array, LAMBDA key : key.k = "str"))

\* the keys of a grid that get a grid_data row: the strings of the keys
\* array that are not empty
FilteredKeys(keys_array) ==
    KeyStrings(SelectSeq(keys_array, LAMBDA key : key.k = "str" /\ key.s # <<>>))

\* the loop over the filtered keys: a grid_data row for each, until a key
\* that the data object does not have, where indexing the map panics
RECURSIVE InsertGridData(_, _, _, _, _, _)
InsertGridData(db, keys, data, zoom, column, row) ==
    IF keys = <<>> \/ data.k # "obj" THEN Done("ok", "", db)
    ELSE IF Head(keys) \notin DOMAIN data.o
    THEN Done("panic", "no entry found for key", db)
    ELSE InsertGridData(
            [db EXCEPT !.grid_data =
                Append(db.grid_data,
                       [zoom |-> zoom, column |-> column, row |-> row,
                        key_name |-> Head(keys),
                        key_json |-> ToJsonText(data.o[Head(keys)])])],
            Tail(keys), data, zoom, column, row)

\* the row of grids for an object: the object without "data", compressed
GridRow(o, zoom, column, row) ==
    [zoom |-> zoom, column |-> column, row |-> row,
     grid |-> deflate(ToJsonText(JObj(Without(o, N_data))))]

\* a mutant of Grid: the rows of grid_data without the row of grids
Grid_without_row(db, utfgrid, zoom, column, row) ==
    IF /\ utfgrid.ok
       /\ utfgrid.json.k = "obj"
       /\ N_keys \in DOMAIN utfgrid.json.o
       /\ utfgrid.json.o[N_keys].k = "arr"
       /\ N_data \in DOMAIN utfgrid.json.o
    THEN InsertGridData(db, FilteredKeys(utfgrid.json.o[N_keys].a), utfgrid.json.o[N_data],
                        zoom, column, row)
    ELSE Done("err", "Json", db)

\* insert_grid_json once the file is read, unwrapped and parsed: the row of
\* grids first, then the rows of grid_data
Grid(db, utfgrid, zoom, column, row) ==
    IF ~utfgrid.ok THEN Done("err", "Json", db)
    ELSE IF utfgrid.json.k # "obj" THEN Done("err", "grid json not an object", db)
    ELSE IF /\ N_keys \in DOMAIN utfgrid.json.o
            /\ utfgrid.json.o[N_keys].k = "arr"
            /\ N_data \in DOMAIN utfgrid.json.o
    THEN InsertGridData(
            [db EXCEPT !.grids = Append(db.grids, GridRow(utfgrid.json.o, zoom, column, row))],
            FilteredKeys(utfgrid.json.o[N_keys].a), utfgrid.json.o[N_data],
            zoom, column, row)
    ELSE Done("ok", "",
              [db EXCEPT !.grids = Append(db.grids, GridRow(utfgrid.json.o, zoom, column, row))])

\* fn insert_grid_json(grid_path, zoom, column, row, connection): [res, error, db]
insert_grid_json(db, grid_content, zoom, column, row) ==
    Grid(db, from_str(unwrap_jsonp(grid_content)), zoom, column, row)

\* parse_filename_and_insert from the extension test on
Insert(db, parts, image_format, content, zoom, col, row) ==
    IF Len(parts) = 2 /\ parts[2] = get_extension(image_format)
    THEN insert_image_sqlite(db, content, zoom, col, row)
    ELSE IF Len(parts) = 3 /\ parts[2] = <<"g", "r", "i", "d">>
                           /\ parts[3] = <<"j", "s", "o", "n">>
    THEN insert_grid_json(db, content, zoom, col, row)
    ELSE IF Len(parts) < 2 THEN Done("panic", "index out of bounds", db)
    ELSE Done("err", "The filtered extention is different", db)

\* the (col, row) of parse_filename_and_insert, the row flipped: [panic, col, row]
ColRow(flag_scheme, zoom, image_dir, image_filename, checks) ==
    IF flag_scheme = "Ags"
    THEN [col |-> image_filename, flipped |-> flip_y(checks, zoom, image_dir)]
    ELSE IF flag_scheme = "Xyz"
    THEN [col |-> image_dir, flipped |-> flip_y(checks, zoom, image_filename)]
    ELSE [col |-> image_dir, flipped |-> [panic |-> FALSE, v |-> image_filename]]

Flipped(db, parts, image_format, content, zoom, cr) ==
    IF cr.flipped.panic THEN Done("panic", "arithmetic overflow", db)
    ELSE Insert(db, parts, image_format, content, zoom, cr.col, cr.flipped.v)

Stem(db, parts, flag_scheme, image_format, zoom, image_dir, content, checks, image_filename) ==
    IF ~image_filename.ok
    THEN Done("err", "Can't parse component in integer format", db)
    ELSE Flipped(db, parts, image_format, content, zoom,
                 ColRow(flag_scheme, zoom, image_dir, image_filename.v, checks))

Parts(db, parts, flag_scheme, image_format, zoom, image_dir, content, checks) ==
    Stem(db, parts, flag_scheme, image_format, zoom, image_dir, content, checks,
         from_str_radix(IF flag_scheme = "Ags" THEN Remove(parts[1], "C") ELSE parts[1],
                        IF flag_scheme = "Ags" THEN 16 ELSE 10))

\* fn parse_filename_and_insert(component, flag_scheme, image_format, zoom,
\* image_dir, entry_path, connection): [res, error, db].  The stem is parsed,
\* then the row is flipped, and only then is the extension looked at.
parse_filename_and_insert(db, component, flag_scheme, image_format, zoom, image_dir, content, checks) ==
    Parts(db, Split(component, "."), flag_scheme, image_format, zoom, image_dir,
          content, checks)

Decoded(db, f, flag_scheme, image_format, checks, zoom, image_dir) ==
    IF ~zoom.ok \/ ~image_dir.ok
    THEN Done("err", "Can't parse component in integer format", db)
    ELSE parse_filename_and_insert(db, f.path[3], flag_scheme, image_format,
                                   zoom.v, image_dir.v, f.content, checks)

\* one entry of the walk: a file at depth 3 is decoded and inserted, any
\* other file is passed over
WalkEntry(db, f, flag_scheme, image_format, checks) ==
    IF Len(f.path) # WalkDepth THEN Done("ok", "", db)
    ELSE Decoded(db, f, flag_scheme, image_format, checks,
                 parse_zoom_dir(f.path[1], flag_scheme),
                 parse_image_dir(f.path[2], flag_scheme))

\* what stands for the content of a directory that cannot be read: the walker
\* yields an Err when it tries to descend into it
Unreadable == <<"EACCES">>

\* fn walk_dir_image(input, flag_scheme, flag_image_format, connection):
\* [res, error, db, skipped].  An entry's error is logged and the walk goes
\* on (unwrap_or_else); a panic ends the process; an Err of the walker itself
\* is returned (try!).
RECURSIVE walk_dir_image(_, _, _, _, _, _)
RECURSIVE WalkStep(_, _, _, _, _, _)
WalkStep(e, order, flag_scheme, image_format, checks, skipped) ==
    IF e.res = "panic"
    THEN [res |-> "panic", error |-> e.error, db |-> e.db, skipped |-> skipped]
    ELSE walk_dir_image(
            e.db, Tail(order), flag_scheme, image_format, checks,
            IF e.res = "err"
            THEN skipped \cup {[path |-> Head(order).path, error |-> e.error]}
            ELSE skipped)

walk_dir_image(db, order, flag_scheme, image_format, checks, skipped) ==
    IF order = <<>> THEN [res |-> "ok", error |-> "", db |-> db, skipped |-> skipped]
    ELSE IF Head(order).content = Unreadable /\ Len(Head(order).path) < WalkDepth
    THEN [res |-> "err", error |-> "invalid entry", db |-> db, skipped |-> skipped]
    ELSE WalkStep(WalkEntry(db, Head(order), flag_scheme, image_format, checks),
                 order, flag_scheme, image_format, checks, skipped)

ImportStages == <<"connect", "tune", "schema", "metadata", "walk", "analyze", "vacuum">>

\* a mutant of ImportWalked: ANALYZE and VACUUM whatever the walk returned
ImportWalked_always_optimizes(walk) ==
    [res |-> walk.res, error |-> walk.error, db |-> walk.db, skipped |-> walk.skipped,
     stages |-> ImportStages]

\* import from the walk on: ANALYZE and VACUUM when the walk returned Ok
ImportWalked(walk) ==
    [res |-> walk.res, error |-> walk.error, db |-> walk.db, skipped |-> walk.skipped,
     stages |-> IF walk.res = "ok" THEN ImportStages ELSE SubSeq(ImportStages, 1, 5)]

ImportMetadata(meta, order, flag_scheme, image_format, checks) ==
    IF meta.res # "ok"
    THEN [res |-> meta.res, error |-> meta.error, db |-> meta.db, skipped |-> {},
          stages |-> SubSeq(ImportStages, 1, 4)]
    ELSE ImportWalked(walk_dir_image(meta.db, order, flag_scheme, image_format, checks, {}))

ImportSetup(setup, files, order, flag_scheme, image_format, checks) ==
    IF ~setup.ok
    THEN [res |-> "err", error |-> "Can't create schema", db |-> setup.db,
          skipped |-> {}, stages |-> SubSeq(ImportStages, 1, 3)]
    ELSE ImportMetadata(insert_metadata(setup.db, files), order, flag_scheme,
                        image_format, checks)

\* pub fn import(input, output, flag_scheme, flag_image_format):
\* [res, error, db, skipped, stages], the entries walked in the given order
import(dir, db, flag_scheme, image_format, order, checks) ==
    IF ~dir.exists
    THEN [res |-> "err", error |-> "Can only import from a directory", db |-> db,
          skipped |-> {}, stages |-> <<>>]
    ELSE ImportSetup(mbtiles_setup(db), dir.files, order, flag_scheme, image_format,
                     checks)

----------------------------------------------------------------------------
(* Export: container -> directory tree *)

\* fs::create_dir_all(dir) and then File::create(dir/name) with the content
\* written: [ok, files].  A directory cannot be made where a file is, nor a
\* file where a directory is; an existing file is truncated.
WriteFile(files, dir, name, content) ==
    LET path == Append(dir, name)
    IN IF \/ \E f \in files : Len(f.path) <= Len(dir) /\ IsPrefix(f.path, dir)
          \/ \E f \in files : Len(f.path) > Len(path) /\ IsPrefix(path, f.path)
       THEN [ok |-> FALSE, files |-> files]
       ELSE [ok |-> TRUE,
             files |-> {f \in files : f.path # path}
                       \cup {[path |-> path, content |-> content]}]

\* a value bound to a statement compared with a stored one: the container
\* holds a u32 as the i64 of the same value, the statement binds an i32
SqlEq(stored, bound) == stored = bound /\ bound >= 0

\* collect() into a BTreeMap: of two rows with the same name the later stays
RECURSIVE CollectMap(_, _)
CollectMap(rows, acc) ==
    IF rows = <<>> THEN acc
    ELSE CollectMap(Tail(rows), With(acc, Head(rows)[1], Head(rows)[2]))

\* what a write makes of the disk: [res, error, files]
Written(w, files, error) ==
    IF w.ok THEN [res |-> "ok", error |-> "", files |-> w.files]
    ELSE [res |-> "err", error |-> error, files |-> files]

Failed(res, error, files) == [res |-> res, error |-> error, files |-> files]

\* the object export_metadata writes: the rows of metadata as a map
MetadataObject(metadata) ==
    JObj(CollectMap([i \in 1..Len(metadata) |->
                        <<metadata[i].name, JStr(metadata[i].value)>>],
                    <<>>))

\* fn export_metadata(connection, output_path): [res, error, files]
export_metadata(db, files) ==
    IF ~db.schema THEN Failed("err", "no such table", files)
    ELSE Written(WriteFile(files, <<>>, MetadataJson,
                           ToJsonText(MetadataObject(db.metadata))),
                 files, "Can't create metadata file")

\* the directory of a tile's file, below the output directory
TileDir(flag_scheme, z, x, y) ==
    IF flag_scheme = "Wms"
    THEN <<ZeroPad(FmtU32(z), 2),
           ZeroPad(FmtU32(z), 2),
           FmtI32Pad(TruncDiv(x, 1000000), 3),
           FmtI32Pad(TruncRem(TruncDiv(x, 1000), 1000), 3),
           FmtI32Pad(TruncRem(x, 1000), 2),
           FmtI32Pad(TruncDiv(y, 1000000), 2),
           FmtI32Pad(TruncRem(TruncDiv(y, 1000), 1000), 2)>>
    ELSE <<FmtU32(z), FmtU32(x)>>

\* the name of a tile's file
TileName(flag_scheme, image_format, y) ==
    (IF flag_scheme = "Wms" THEN FmtI32Pad(TruncRem(y, 1000), 3) ELSE FmtU32(y))
    \o <<".">> \o get_extension(image_format)

\* a mutant of ExportRow: the row is never flipped
ExportRow_never_flipped(flag_scheme, zoom, row, checks) ==
    [panic |-> FALSE, v |-> row]

\* the y of export_tile: the row, flipped under Xyz: [panic, v]
ExportRow(flag_scheme, zoom, row, checks) ==
    IF flag_scheme = "Xyz" THEN flip_y(checks, zoom, row)
    ELSE [panic |-> FALSE, v |-> row]

TileFlipped(files, tile, flag_scheme, image_format, flipped) ==
    IF flipped.panic THEN Failed("panic", "arithmetic overflow", files)
    ELSE Written(WriteFile(files,
                           TileDir(flag_scheme, tile.zoom, tile.column, flipped.v),
                           TileName(flag_scheme, image_format, flipped.v), tile.data),
                 files, "Can't create the tile")

\* fn export_tile(tile, output_path, flag_scheme, flag_image_format):
\* [res, error, files]
export_tile(files, tile, flag_scheme, image_format, checks) ==
    TileFlipped(files, tile, flag_scheme, image_format,
                ExportRow(flag_scheme, tile.zoom, tile.row, checks))

\* the loop of export over the rows of tiles, in the order of the table
RECURSIVE ExportTiles(_, _, _, _, _)
RECURSIVE TileExported(_, _, _, _, _)
TileExported(t, tiles, flag_scheme, image_format, checks) ==
    IF t.res # "ok" THEN t
    ELSE ExportTiles(t.files, Tail(tiles), flag_scheme, image_format, checks)

ExportTiles(files, tiles, flag_scheme, image_format, checks) ==
    IF tiles = <<>> THEN Failed("ok", "", files)
    ELSE TileExported(export_tile(files, Head(tiles), flag_scheme, image_format, checks),
                      tiles, flag_scheme, image_format, checks)

\* a mutant of GridDump: the wrapper written whatever the callback is
GridDump_always_wrapped(flag_grid_callback, grid_json) ==
    flag_grid_callback \o <<"(">> \o grid_json \o <<")", ";">>

\* the text written to a grid file: the JSON alone, or wrapped in a call
GridDump(flag_grid_callback, grid_json) ==
    IF flag_grid_callback \in {<<>>, <<"f", "a", "l", "s", "e">>, <<"n", "u", "l", "l">>}
    THEN grid_json
    ELSE flag_grid_callback \o <<"(">> \o grid_json \o <<")", ";">>

\* the row the grid_data of a grid is selected with: the variable y, which
\* under Xyz holds the flipped row by then
GridDataRow(stored_row, y) == y

\* the rows of grid_data selected for a grid
GridDataRows(grid_data, zoom, column, row) ==
    SelectSeq(grid_data,
              LAMBDA r : SqlEq(r.zoom, zoom) /\ SqlEq(r.column, column) /\ SqlEq(r.row, row))

\* the selected rows with key_json parsed: <<key_name, [ok, json]>>
ParsedRows(rows) == [i \in 1..Len(rows) |-> <<rows[i].key_name, from_str(rows[i].key_json)>>]

\* the map collected from the parsed rows
DataMap(parsed) == CollectMap([i \in 1..Len(parsed) |-> <<parsed[i][1], parsed[i][2].json>>], <<>>)

GridParsed(files, grid, y, grid_json, parsed, flag_grid_callback) ==
    IF ~grid_json.ok THEN Failed("err", "Grid json", files)
    ELSE IF \E i \in 1..Len(parsed) : ~parsed[i][2].ok
    THEN Failed("err", "Can't parse json", files)
    ELSE IF grid_json.json.k # "obj" THEN Failed("err", "grid is not an object", files)
    ELSE Written(WriteFile(files, <<FmtI32(grid.zoom), FmtI32(grid.column)>>,
                           GridJson(FmtI32(y)),
                           GridDump(flag_grid_callback,
                                    ToJsonText(JObj(With(grid_json.json.o, N_data,
                                                         JObj(DataMap(parsed))))))),
                 files, "Can't create the grid file")

GridInflated(files, db, grid, y, unzipped_grid, flag_grid_callback) ==
    IF ~unzipped_grid.ok THEN Failed("err", "Zip", files)
    ELSE GridParsed(files, grid, y, from_str(unzipped_grid.text),
                    ParsedRows(GridDataRows(db.grid_data, grid.zoom, grid.column,
                                            GridDataRow(grid.row, y))),
                    flag_grid_callback)

GridFlipped(files, db, grid, flipped, flag_grid_callback) ==
    IF flipped.panic THEN Failed("panic", "arithmetic overflow", files)
    ELSE IF \E f \in files :
               Len(f.path) <= 2 /\ IsPrefix(f.path, <<FmtI32(grid.zoom), FmtI32(grid.column)>>)
    THEN Failed("err", "Can't create the directory", files)
    ELSE GridInflated(files, db, grid, flipped.v, inflate(grid.grid), flag_grid_callback)

\* the body of the loop of export_grid for one row of grids: [res, error, files]
ExportGridRow(files, db, grid, flag_scheme, flag_grid_callback, checks) ==
    GridFlipped(files, db, grid, ExportRow(flag_scheme, grid.zoom, grid.row, checks),
                flag_grid_callback)

\* fn export_grid(connection, output_path, flag_scheme, flag_grid_callback):
\* the rows of grids in the order of the table, until one fails
RECURSIVE export_grid(_, _, _, _, _, _)
RECURSIVE GridExported(_, _, _, _, _, _)
\* a mutant of GridExported: a row that failed is passed over
GridExported_tolerant(g, db, grids, flag_scheme, flag_grid_callback, checks) ==
    export_grid(g.files, db, Tail(grids), flag_scheme, flag_grid_callback, checks)

GridExported(g, db, grids, flag_scheme, flag_grid_callback, checks) ==
    IF g.res # "ok" THEN g
    ELSE export_grid(g.files, db, Tail(grids), flag_scheme, flag_grid_callback, checks)

export_grid(files, db, grids, flag_scheme, flag_grid_callback, checks) ==
    IF grids = <<>> THEN Failed("ok", "", files)
    ELSE GridExported(ExportGridRow(files, db, Head(grids), flag_scheme,
                                    flag_grid_callback, checks),
                      db, grids, flag_scheme, flag_grid_callback, checks)

\* a mutant of ExportValidation: the output directory is not looked at
ExportValidation_input_only(db, dir) ==
    IF ~db.exists THEN "Can't export from a file at path" ELSE ""

\* the checks export makes before it touches the disk: "" when they pass
ExportValidation(db, dir) ==
    IF ~db.exists THEN "Can't export from a file at path"
    ELSE IF dir.exists THEN "Directory already exists"
    ELSE ""

ExportStages == <<"mkdir", "connect", "metadata", "tiles", "grids">>

\* a mutant of Exported: a failed export removes its output directory
Exported_cleans_up(r, n) ==
    [res |-> r.res, error |-> r.error,
     dir |-> IF r.res = "ok" THEN [exists |-> TRUE, files |-> r.files] ELSE NoDir,
     stages |-> SubSeq(ExportStages, 1, n)]

\* what export returns once the output directory is made
Exported(r, n) ==
    [res |-> r.res, error |-> r.error, dir |-> [exists |-> TRUE, files |-> r.files],
     stages |-> SubSeq(ExportStages, 1, n)]

ExportTilesDone(tiles, db, flag_scheme, flag_grid_callback, checks) ==
    IF tiles.res # "ok" THEN Exported(tiles, 4)
    ELSE Exported(export_grid(tiles.files, db, db.grids, flag_scheme,
                              flag_grid_callback, checks), 5)

ExportMetadataDone(meta, db, flag_scheme, image_format, flag_grid_callback, checks) ==
    IF meta.res # "ok" THEN Exported(meta, 3)
    ELSE ExportTilesDone(ExportTiles(meta.files, db.tiles, flag_scheme, image_format,
                                     checks),
                         db, flag_scheme, flag_grid_callback, checks)

ExportValidated(invalid, db, dir, flag_scheme, image_format, flag_grid_callback, checks) ==
    IF invalid # ""
    THEN [res |-> "err", error |-> invalid, dir |-> dir, stages |-> <<>>]
    ELSE ExportMetadataDone(export_metadata(db, dir.files), db, flag_scheme, image_format,
                            flag_grid_callback, checks)

\* pub fn export(input, opt_output, flag_scheme, flag_image_format,
\* flag_grid_callback): [res, error, dir, stages]
export(db, dir, flag_scheme, image_format, flag_grid_callback, checks) ==
    ExportValidated(ExportValidation(db, dir), db, dir, flag_scheme, image_format,
                    flag_grid_callback, checks)

----------------------------------------------------------------------------
(* The calls: tests/lib.rs exports a container, imports the exported
   directory into a second container and exports that one again *)

SourceStore == "utf8grid.mbtiles"

ImportedStore == "imported.mbtiles"

ExportedDir == "exported"

ImportedDir == "imported"

StoreNames == {SourceStore, ImportedStore}

DirNames == {ExportedDir, ImportedDir}

\* <<input, output>> of the calls of export and of import
ExportCalls == {<<SourceStore, ExportedDir>>, <<ImportedStore, ImportedDir>>}

ImportCalls == {<<ExportedDir, ImportedStore>>}

NoCall == [op |-> "none", input |-> "", output |-> "", res |-> "", error |-> "",
           stages |-> <<>>, skipped |-> {}]

\* the calls a run makes at most
MaxCalls == 3

\* the last call and what it returned
last == IF calls = <<>> THEN NoCall ELSE calls[Len(calls)]

Idle == [zoom |-> 0, y |-> 0, step |-> 0, once |-> 0, twice |-> 0, panic |-> FALSE]

ExportReturns(r, input, output) ==
    /\ disk' = [disk EXCEPT ![output] = r.dir]
    /\ calls' = Append(calls, [op |-> "export", input |-> input, output |-> output,
                               res |-> r.res, error |-> r.error, stages |-> r.stages,
                               skipped |-> {}])
    /\ UNCHANGED <<store, flags, overflow_checks, calc>>

\* export(input, Some(output), flags...)
Export(input, output) ==
    /\ Len(calls) < MaxCalls
    /\ ExportReturns(export(store[input], disk[output], flags.scheme, flags.image_format,
                            flags.grid_callback, overflow_checks),
                     input, output)

ImportReturns(r, input, output) ==
    /\ store' = [store EXCEPT ![output] = r.db]
    /\ calls' = Append(calls, [op |-> "import", input |-> input, output |-> output,
                               res |-> r.res, error |-> r.error, stages |-> r.stages,
                               skipped |-> r.skipped])
    /\ UNCHANGED <<disk, flags, overflow_checks, calc>>

\* import(input, output, flags...), the directory walked in any of its orders
Import(input, output) ==
    /\ Len(calls) < MaxCalls
    /\ \E order \in WalkOrders(disk[input].files) :
          ImportReturns(import(disk[input], store[output], flags.scheme,
                               flags.image_format, order, overflow_checks),
                        input, output)

Next ==
    \/ \E c \in ExportCalls : Export(c[1], c[2])
    \/ \E c \in ImportCalls : Import(c[1], c[2])

----------------------------------------------------------------------------
(* The directories an import starts from *)

MaxTiles == 2

Blob1 == <<"b1">>

Blob2 == <<"b2">>

Png(stem) == stem \o <<".", "p", "n", "g">>

File(path, content) == [path |-> path, content |-> content]

\* tile files, well named and not
TileFiles ==
    {File(<<<<"0">>, <<"0">>, Png(<<"0">>)>>, Blob1),
     File(<<<<"1">>, <<"0">>, Png(<<"0">>)>>, Blob1),
     File(<<<<"1">>, <<"0">>, Png(<<"1">>)>>, Blob2),
     File(<<<<"0", "1">>, <<"0">>, Png(<<"0">>)>>, Blob2),
     File(<<<<"0">>, <<"0">>, <<"5", ".", "j", "p", "g">>>>, Blob1),
     File(<<<<"3">>, <<"0">>, <<"5", ".", "j", "p", "g">>>>, Blob1),
     File(<<<<"L", "1">>, <<"R", "1">>, Png(<<"C", "0">>)>>, Blob2),
     File(<<<<"x">>, <<"0">>, Png(<<"0">>)>>, Blob1),
     File(<<<<"0">>, <<"0">>, Png(<<"7">>)>>, Blob1),
     File(<<<<"3", "2">>, <<"0">>, Png(<<"0">>)>>, Blob2)}

\* metadata.json with the object {"n":"x"}
MetadataFile ==
    File(<<MetadataJson>>, ToJsonText(JObj([n \in {<<"n">>} |-> JStr(<<"x">>)])))

\* the data objects of the grid files: a is 7 and k1 is 42 where present
GridFileData ==
    {JObj([n \in D |-> IF n = <<"a">> THEN JNum(<<"7">>) ELSE JNum(<<"4", "2">>)]) :
        D \in SUBSET (KeyNames \ {<<>>})}
    \cup {JNum(<<"7">>), JNull}

\* the contents of the grid files: an object alone, or wrapped as cb(...);
GridFileTexts ==
    LET objects == {GridObject(JArr(<<>>), k, d) : k \in KeysChoices, d \in GridFileData}
    IN {ToJsonText(j) : j \in objects}
       \cup {<<"c", "b", "(">> \o ToJsonText(j) \o <<")", ";">> : j \in objects}

\* an object alone, as cb(...) and as cb(...); : one with empty keys, and the
\* one with the string shaped like a call
JsonpTexts ==
    UNION {{ToJsonText(j),
            <<"c", "b", "(">> \o ToJsonText(j) \o <<")">>,
            <<"c", "b", "(">> \o ToJsonText(j) \o <<")", ";">>} :
              j \in {GridObject(JArr(<<>>), JArr(<<>>), JNull), CallShapedObject}}

GridFiles ==
    {File(<<<<"1">>, <<"0">>, GridJson(<<"1">>)>>, t) : t \in GridFileTexts \cup JsonpTexts}

\* directories of tile files: up to MaxTiles of them, with or without
\* metadata.json
TileDirs ==
    {tiles \cup meta : tiles \in {t \in SUBSET TileFiles : Cardinality(t) <= MaxTiles},
                       meta \in {{}, {MetadataFile}}}

\* directories of a grid file and metadata.json
GridDirs == {{MetadataFile, g} : g \in GridFiles}

\* the flags of a run: the callback matters to an export of grids only
ImportFlags == [scheme : Schemes, image_format : {"Png"}, grid_callback : {<<>>}]

\* a run that starts from a directory: no container yet.  The grid file is
\* at a path that every scheme decodes; it is imported under Xyz and Tms.
InitImport ==
    /\ \/ /\ \E files \in TileDirs :
                disk = [d \in DirNames |->
                           IF d = ExportedDir THEN [exists |-> TRUE, files |-> files]
                           ELSE NoDir]
          /\ flags \in ImportFlags
       \/ /\ \E files \in GridDirs :
                disk = [d \in DirNames |->
                           IF d = ExportedDir THEN [exists |-> TRUE, files |-> files]
                           ELSE NoDir]
          /\ flags \in {f \in ImportFlags : f.scheme \in {"Xyz", "Tms"}}
    /\ store = [c \in StoreNames |-> NoStore]
    /\ overflow_checks \in BOOLEAN
    /\ calls = <<>>
    /\ calc = Idle

\* the directory is imported, and what was imported is exported
NextImport ==
    \/ Import(ExportedDir, ImportedStore)
    \/ Export(ImportedStore, ImportedDir)

SpecImport == InitImport /\ [][NextImport]_vars

----------------------------------------------------------------------------
(* The directories a walk goes through: entries that decode and entries that
   do not *)

MaxEntries == 2

\* the grid object with the keys given and the data {"a":7}
GridText(keys) ==
    ToJsonText(GridObject(JArr(<<>>), JArr([i \in 1..Len(keys) |-> JStr(keys[i])]),
                          JObj([n \in {<<"a">>} |-> JNum(<<"7">>)])))

\* files at depth 3: two tiles and two grids whose names decode to the same
\* numbers, names that do not decode, a grid file that holds no object and
\* one whose second key is not in its data
EntryFiles ==
    {File(<<<<"1">>, <<"0">>, Png(<<"1">>)>>, Blob1),
     File(<<<<"1">>, <<"0">>, Png(<<"0", "1">>)>>, Blob2),
     File(<<<<"1">>, <<"0">>, <<"5">>>>, Blob1),
     File(<<<<"1">>, <<"0">>, Png(<<"x">>)>>, Blob1),
     File(<<<<"x">>, <<"0">>, Png(<<"0">>)>>, Blob1),
     File(<<<<"1">>, <<"x">>, Png(<<"0">>)>>, Blob1),
     File(<<<<"1">>, <<"0">>, <<"0", ".", "j", "p", "g">>>>, Blob1),
     File(<<<<"1">>, <<"0">>, Png(<<"0", ".", "a", ".", "b">>)>>, Blob1),
     File(<<<<"1">>, <<"0">>, GridJson(<<"1">>)>>, GridText(<<<<"a">>>>)),
     File(<<<<"1">>, <<"0">>, GridJson(<<"0", "1">>)>>, GridText(<<<<>>, <<"a">>>>)),
     File(<<<<"1">>, <<"0">>, GridJson(<<"0">>)>>, <<"[", "]">>),
     File(<<<<"0">>, <<"0">>, GridJson(<<"0">>)>>, GridText(<<<<"a">>, <<"k", "1">>>>))}

\* directories of metadata.json and up to MaxEntries of these files
EntryDirs ==
    {entries \cup {MetadataFile} :
        entries \in {e \in SUBSET EntryFiles : Cardinality(e) <= MaxEntries}}

\* a run that starts from such a directory: no container yet
InitEntries ==
    /\ \E files \in EntryDirs :
          disk = [d \in DirNames |->
                     IF d = ExportedDir THEN [exists |-> TRUE, files |-> files]
                     ELSE NoDir]
    /\ flags \in ImportFlags
    /\ store = [c \in StoreNames |-> NoStore]
    /\ overflow_checks \in BOOLEAN
    /\ calls = <<>>
    /\ calc = Idle

SpecEntries == InitEntries /\ [][NextImport]_vars

----------------------------------------------------------------------------
(* The directories whose metadata.json varies *)

\* what metadata.json may hold: an object of strings, an object with a
\* number among its values, a value that is no object, or no JSON at all
MetadataTexts ==
    {ToJsonText(j) : j \in ObjectsOver(MetaNames, MetaValues \cup {JNum(<<"7">>)})
                           \cup {JArr(<<>>), JNull, JNum(<<"7">>), JStr(<<"x">>)}}
    \cup {<<"{">>}

\* directories of a metadata.json and any of a tile file, a grid file and a
\* directory that cannot be read
MetadataDirs ==
    {{File(<<MetadataJson>>, text)} \cup entries :
        text \in MetadataTexts,
        entries \in SUBSET {File(<<<<"0">>, <<"0">>, Png(<<"0">>)>>, Blob1),
                            File(<<<<"1">>, <<"0">>, GridJson(<<"1">>)>>,
                                 GridText(<<<<"a">>>>)),
                            File(<<<<"2">>>>, Unreadable)}}

InitMetadata ==
    /\ \E files \in MetadataDirs :
          disk = [d \in DirNames |->
                     IF d = ExportedDir THEN [exists |-> TRUE, files |-> files]
                     ELSE NoDir]
    /\ flags \in ImportFlags
    /\ store = [c \in StoreNames |-> NoStore]
    /\ overflow_checks \in BOOLEAN
    /\ calls = <<>>
    /\ calc = Idle

SpecMetadata == InitMetadata /\ [][NextImport]_vars

----------------------------------------------------------------------------
(* The containers an export starts from *)

Tile(zoom, column, row, data) ==
    [zoom |-> zoom, column |-> column, row |-> row, data |-> data]

\* rows of tiles: the last one has a row that its zoom level does not have
TileRows ==
    <<Tile(0, 0, 0, Blob1), Tile(1, 0, 0, Blob1), Tile(1, 0, 1, Blob2),
      Tile(2, 1, 3, Blob1), Tile(3, 1234567, 7, Blob2), Tile(0, 0, 1, Blob1)>>

\* the rows of a sequence at the indices of I, in their order
RECURSIVE Pick(_, _)
Pick(rows, I) ==
    IF rows = <<>> THEN <<>>
    ELSE (IF Len(rows) \in I THEN Pick(Front(rows), I) \o <<Last(rows)>>
          ELSE Pick(Front(rows), I))

\* the tables of tiles: up to MaxTiles of TileRows
TileTables ==
    {Pick(TileRows, I) : I \in {J \in SUBSET (1..Len(TileRows)) : Cardinality(J) <= MaxTiles}}

MetadataEntry(name, value) == [name |-> name, value |-> value]

MetadataTables ==
    {<<>>, <<MetadataEntry(<<"n">>, <<"x">>)>>,
     <<MetadataEntry(<<"n">>, <<"x">>), MetadataEntry(<<"v">>, <<"y">>)>>}

\* the keys arrays of the stored grids
StoredKeys ==
    {JArr(<<>>), JArr(<<JStr(<<"a">>)>>), JArr(<<JStr(<<>>), JStr(<<"k", "1">>)>>)}

\* the value stored for a key: a is 7, k1 is 42
StoredValue(key) == IF key = <<"a">> THEN <<"7">> ELSE <<"4", "2">>

\* the grid_data rows of a keys array at an address: one for each key that is
\* not empty
StoredData(keys, zoom, column, row) ==
    [i \in 1..Len(FilteredKeys(keys.a)) |->
        [zoom |-> zoom, column |-> column, row |-> row,
         key_name |-> FilteredKeys(keys.a)[i],
         key_json |-> StoredValue(FilteredKeys(keys.a)[i])]]

\* a container with the tables given
Container(tiles, metadata, grids, grid_data) ==
    [exists |-> TRUE, schema |-> TRUE, tiles |-> tiles, metadata |-> metadata,
     grids |-> grids, grid_data |-> grid_data]

\* where the stored grids are: zoom 0 has one row, zoom 1 has two
GridAddresses == {<<0, 0, 0>>, <<1, 0, 0>>}

\* containers with a tile and a grid: the payload of the grid an object with
\* keys, its grid_data complete or missing; or a payload that is no zlib
\* stream, or no object
GridContainers ==
    {Container(<<Tile(1, 0, 0, Blob1)>>, <<MetadataEntry(<<"n">>, <<"x">>)>>,
               <<[zoom |-> a[1], column |-> a[2], row |-> a[3],
                  grid |-> deflate(ToJsonText(GridObject(JArr(<<>>), keys, JNull)))]>>,
               IF complete THEN StoredData(keys, a[1], a[2], a[3]) ELSE <<>>) :
        a \in GridAddresses, keys \in StoredKeys, complete \in BOOLEAN}
    \cup {Container(<<>>, <<>>,
                    <<[zoom |-> a[1], column |-> a[2], row |-> a[3], grid |-> payload]>>,
                    <<>>) :
             a \in GridAddresses, payload \in {Blob1, deflate(<<"[", "]">>)}}

\* containers with tiles and no grid: any table of tiles with one entry of
\* metadata, and any table of metadata with one tile
TileContainers ==
    {Container(tiles, <<MetadataEntry(<<"n">>, <<"x">>)>>, <<>>, <<>>) : tiles \in TileTables}
    \cup {Container(<<Tile(0, 0, 0, Blob1)>>, metadata, <<>>, <<>>) :
             metadata \in MetadataTables}

\* the payloads of a stored grid: a compressed object, bytes that are no zlib
\* stream, a compressed array, a compressed text that is no JSON
GridPayloads ==
    {deflate(ToJsonText(GridObject(JArr(<<>>), JArr(<<JStr(<<"a">>)>>), JNull))),
     Blob1, deflate(<<"[", "]">>), deflate(<<"{">>)}

\* containers with a tile and two grids, at (0, 0, 0) and then at (1, 0, 1):
\* any payload for each, and for the first a grid_data row whose key_json is
\* JSON or is not
TwoGridContainers ==
    {Container(<<Tile(0, 0, 0, Blob1)>>, <<MetadataEntry(<<"n">>, <<"x">>)>>,
               <<[zoom |-> 0, column |-> 0, row |-> 0, grid |-> first],
                 [zoom |-> 1, column |-> 0, row |-> 1, grid |-> second]>>,
               <<[zoom |-> 0, column |-> 0, row |-> 0,
                  key_name |-> <<"a">>, key_json |-> key_json]>>) :
        first \in GridPayloads, second \in GridPayloads, key_json \in {<<"7">>, <<"{">>}}

Callbacks == {<<>>, <<"f", "a", "l", "s", "e">>, <<"n", "u", "l", "l">>, <<"c", "b">>}

\* a run that starts from a container: tests/lib.rs exports it, imports the
\* exported directory and exports what was imported
Init ==
    /\ \/ /\ \E c \in TileContainers :
                store = [n \in StoreNames |-> IF n = SourceStore THEN c ELSE NoStore]
          /\ flags \in ImportFlags
       \/ /\ \E c \in GridContainers :
                store = [n \in StoreNames |-> IF n = SourceStore THEN c ELSE NoStore]
          /\ flags \in [scheme : Schemes, image_format : {"Png"}, grid_callback : Callbacks]
       \/ /\ \E c \in TwoGridContainers :
                store = [n \in StoreNames |-> IF n = SourceStore THEN c ELSE NoStore]
          /\ flags \in ImportFlags
    /\ disk = [d \in DirNames |-> NoDir]
    /\ overflow_checks \in BOOLEAN
    /\ calls = <<>>
    /\ calc = Idle

Spec == Init /\ [][Next]_vars

----------------------------------------------------------------------------
(* flip_y on its own: a row is flipped, and the result flipped again *)

\* the zoom levels of the rows that are flipped
MaxZoom == 20

\* up to this zoom level every row is flipped, above it the rows at the ends
\* and in the middle
FullRowsZoom == 6

\* the rows flipped at a zoom level; the last one, 2^zoom, is the first row
\* the level does not have
FlipRows(zoom) ==
    IF zoom <= FullRowsZoom THEN 0..(2 ^ zoom)
    ELSE {0, 1, 2 ^ (zoom - 1), 2 ^ zoom - 2, 2 ^ zoom - 1, 2 ^ zoom}

InitFlip ==
    /\ \E zoom \in 0..MaxZoom : \E y \in FlipRows(zoom) :
          calc = [Idle EXCEPT !.zoom = zoom, !.y = y]
    /\ overflow_checks \in BOOLEAN
    /\ disk = [d \in DirNames |-> NoDir]
    /\ store = [c \in StoreNames |-> NoStore]
    /\ flags = [scheme |-> "Xyz", image_format |-> "Png", grid_callback |-> <<>>]
    /\ calls = <<>>

Flipped1(r) ==
    /\ calc' = [calc EXCEPT !.step = 1, !.once = r.v, !.panic = r.panic]
    /\ UNCHANGED <<disk, store, flags, overflow_checks, calls>>

\* flip_y(zoom, y)
FlipOnce ==
    /\ calc.step = 0
    /\ Flipped1(flip_y(overflow_checks, calc.zoom, calc.y))

Flipped2(r) ==
    /\ calc' = [calc EXCEPT !.step = 2, !.twice = r.v, !.panic = r.panic]
    /\ UNCHANGED <<disk, store, flags, overflow_checks, calls>>

\* flip_y(zoom, flip_y(zoom, y)), when the first flip returned
FlipTwice ==
    /\ calc.step = 1
    /\ ~calc.panic
    /\ Flipped2(flip_y(overflow_checks, calc.zoom, calc.once))

NextFlip == FlipOnce \/ FlipTwice

SpecFlip == InitFlip /\ [][NextFlip]_vars

----------------------------------------------------------------------------
(* Claims *)

\* C1: for every zoom in 0..20 and every row y with 0 <= y <= 2^zoom - 1,
\* flip_y(zoom, y) does not overflow and is itself a row of the zoom level, and
\* flipping it again gives y back.
C1_FlipYInvolution ==
    (calc.zoom \in 0..MaxZoom /\ calc.y \in 0..(2 ^ calc.zoom - 1)) =>
        /\ ~calc.panic
        /\ calc.step >= 1 => calc.once \in 0..(2 ^ calc.zoom - 1)
        /\ calc.step = 2 => calc.twice = calc.y

\* the last row of zoom 20 is flipped to row 0, and row 0 back to it
C1_Witness ==
    /\ calc.step = 2
    /\ calc.zoom = 20
    /\ calc.y = 1048575
    /\ calc.once = 0
    /\ calc.twice = 1048575

\* the calls of tests/lib.rs, in their order
RoundTrip ==
    <<[op |-> "export", input |-> SourceStore, output |-> ExportedDir],
      [op |-> "import", input |-> ExportedDir, output |-> ImportedStore],
      [op |-> "export", input |-> ImportedStore, output |-> ImportedDir]>>

IsCall(c, call) == c.op = call.op /\ c.input = call.input /\ c.output = call.output

\* the first n calls of the run are the first n calls of the round trip
RoundTripCalls(n) ==
    /\ n <= Len(RoundTrip)
    /\ Len(calls) >= n
    /\ \A i \in 1..n : IsCall(calls[i], RoundTrip[i])

HasSuffix(s, suffix) ==
    Len(s) >= Len(suffix) /\ SubSeq(s, Len(s) - Len(suffix) + 1, Len(s)) = suffix

IsGridFile(f) == f.path # <<>> /\ HasSuffix(Last(f.path), GridJson(<<>>))

IsMetadataFile(f) == f.path = <<MetadataJson>>

\* the tile files of a directory
TileFileSet(dir) == {f \in dir.files : ~IsGridFile(f) /\ ~IsMetadataFile(f)}

\* the name/value pairs of a directory's metadata.json
MetadataPairs(dir) == from_str(FileAt(dir.files, <<MetadataJson>>))

\* the grid_data rows of a container at the address of a grid
DataOf(c, g) == SelectSeq(c.grid_data, LAMBDA r : Address(r) = Address(g))

\* a stored grid as the format wants it: the payload a compressed object with
\* a keys array of strings, and a grid_data row for each key that is not empty
WellFormedGrid(c, g) ==
    /\ inflate(g.grid).ok
    /\ from_str(inflate(g.grid).text).ok
    /\ from_str(inflate(g.grid).text).json.k = "obj"
    /\ N_keys \in DOMAIN from_str(inflate(g.grid).text).json.o
    /\ from_str(inflate(g.grid).text).json.o[N_keys].k = "arr"
    /\ \A k \in Range(from_str(inflate(g.grid).text).json.o[N_keys].a) : k.k = "str"
    /\ {r.key_name : r \in Range(DataOf(c, g))}
          = {k.s : k \in Range(from_str(inflate(g.grid).text).json.o[N_keys].a)} \ {<<>>}
    /\ \A r \in Range(DataOf(c, g)) : from_str(r.key_json).ok

\* a container in the range of the round trip: unique tile addresses, every
\* row a row of its zoom level, well-formed grids
ValidContainer(c) ==
    /\ c.exists
    /\ \A i, j \in 1..Len(c.tiles) : Address(c.tiles[i]) = Address(c.tiles[j]) => i = j
    /\ \A t \in Range(c.tiles) : t.zoom \in 0..30 /\ t.row \in 0..(2 ^ t.zoom - 1)
    /\ \A g \in Range(c.grids) :
          g.zoom \in 0..30 /\ g.row \in 0..(2 ^ g.zoom - 1) /\ WellFormedGrid(c, g)

\* C2: under Xyz and under Tms, for every container with unique tile
\* addresses and rows below 2^zoom, the export, the import of the exported
\* directory and the export of the imported container all succeed, and the
\* second directory has the tile files of the first, with the same contents,
\* and the same metadata.
C2_TileRoundTrip ==
    (flags.scheme \in {"Xyz", "Tms"} /\ ValidContainer(store[SourceStore])) =>
        /\ \A n \in 1..Len(calls) : RoundTripCalls(n) => calls[n].res = "ok"
        /\ RoundTripCalls(3) =>
              /\ TileFileSet(disk[ImportedDir]) = TileFileSet(disk[ExportedDir])
              /\ MetadataPairs(disk[ImportedDir]) = MetadataPairs(disk[ExportedDir])
              /\ MetadataPairs(disk[ImportedDir]).ok

\* the round trip of tiles and metadata where the container has no grid
TileRoundTripWithoutGrids ==
    store[SourceStore].grids = <<>> => C2_TileRoundTrip

\* the JSON object of a grid file, its wrapper taken off
GridFileObject(files, path) == from_str(unwrap_jsonp(FileAt(files, path)))

\* C3: under Xyz, for every container and every one of its grids at any zoom
\* level, the three calls of the round trip succeed and every grid file of
\* the first directory is in the second, with an equal JSON object.
C3_GridRoundTrip ==
    (flags.scheme = "Xyz" /\ ValidContainer(store[SourceStore])) =>
        /\ \A n \in 1..Len(calls) : RoundTripCalls(n) => calls[n].res = "ok"
        /\ RoundTripCalls(3) =>
              \A f \in disk[ExportedDir].files :
                  IsGridFile(f) =>
                      /\ HasFile(disk[ImportedDir].files, f.path)
                      /\ GridFileObject(disk[ImportedDir].files, f.path)
                            = GridFileObject(disk[ExportedDir].files, f.path)

\* an export of input into output has returned Ok
ExportedOk(input, output) ==
    \E i \in 1..Len(calls) :
        /\ IsCall(calls[i], [op |-> "export", input |-> input, output |-> output])
        /\ calls[i].res = "ok"

\* text is the compact text of a JSON object
IsObjectText(text) == from_str(text).ok /\ from_str(text).json.k = "obj"

\* text is body as the callback wants it: alone, or as callback(body);
WrappedAs(flag_grid_callback, text, body) ==
    IF flag_grid_callback \in {<<>>, <<"f", "a", "l", "s", "e">>, <<"n", "u", "l", "l">>}
    THEN text = body
    ELSE text = flag_grid_callback \o <<"(">> \o body \o <<")", ";">>

\* the text between the callback's "(" and the closing ");" of a wrapped text
Body(flag_grid_callback, text) ==
    SubSeq(text, Len(flag_grid_callback) + 2, Len(text) - 2)

\* the content of a grid file is the text of an object, wrapped as the
\* callback wants it
GridFileWrapped(flag_grid_callback, content) ==
    \/ /\ IsObjectText(content)
       /\ WrappedAs(flag_grid_callback, content, content)
    \/ /\ IsObjectText(Body(flag_grid_callback, content))
       /\ WrappedAs(flag_grid_callback, content, Body(flag_grid_callback, content))

WmsPath ==
    <<<<"0", "3">>, <<"0", "3">>, <<"0", "0", "1">>, <<"2", "3", "4">>, <<"5", "6", "7">>,
      <<"0", "0">>, <<"0", "0">>, Png(<<"0", "0", "7">>)>>

\* C9: under Wms a tile is exported at its nested zero-padded path, the tile
\* (3, 1234567, 7) at 03/03/001/234/567/00/00/007.png, and the import of the
\* exported directory under Wms stores the tile at its address again.
C9_WmsRoundTrip ==
    (flags.scheme = "Wms" /\ RoundTripCalls(2) /\ calls[1].res = "ok") =>
        /\ Tile(3, 1234567, 7, Blob2) \in Range(store[SourceStore].tiles)
              => FileAt(disk[ExportedDir].files, WmsPath) = Blob2
        /\ \A t \in Range(store[SourceStore].tiles) : t \in Range(store[ImportedStore].tiles)

\* C10: an export whose input is no file, or whose output directory exists,
\* returns an error and changes nothing: the directories and the containers
\* stay as they are and no connection is opened.
C10_ExportValidatesFirst ==
    [][(/\ last'.op = "export"
        /\ \/ ~store[last'.input].exists
           \/ disk[last'.output].exists)
       => (/\ last'.res = "err"
           /\ last'.stages = <<>>
           /\ disk' = disk
           /\ store' = store)]_vars

\* an export into a directory that a first export has filled is refused
C10_Witness ==
    /\ last.op = "export"
    /\ last.error = "Directory already exists"
    /\ last.stages = <<>>
    /\ disk[last.output].files # {}

\* the call i is the first import of the run
FirstImport(i) ==
    /\ i \in 1..Len(calls)
    /\ calls[i].op = "import"
    /\ \A j \in 1..(i - 1) : calls[j].op # "import"

\* C4: under Xyz the import of a directory that holds the file 0/0/0.png and
\* nothing else returns Ok and leaves exactly one row of tiles, at zoom 0,
\* column 0, row flip_y(0, 0) = 0.
C4_XyzSingleTile ==
    \A i \in 1..Len(calls) :
        (/\ FirstImport(i)
         /\ flags.scheme = "Xyz"
         /\ disk[calls[i].input].files = {File(<<<<"0">>, <<"0">>, Png(<<"0">>)>>, Blob1)})
        => /\ calls[i].res = "ok"
           /\ store[calls[i].output].tiles = <<Tile(0, 0, 0, Blob1)>>

\* C5: an import of a directory without metadata.json does not fail for it:
\* it inserts no row of metadata and goes on to walk the directory.
C5_MissingMetadataSkipped ==
    \A i \in 1..Len(calls) :
        (/\ FirstImport(i)
         /\ disk[calls[i].input].exists
         /\ ~HasFile(disk[calls[i].input].files, <<MetadataJson>>))
        => /\ calls[i].error # "Can't open metadata.json"
           /\ "walk" \in Range(calls[i].stages)
           /\ store[calls[i].output].metadata = <<>>

\* a file named 5.jpg at depth 3
IsFiveJpg(f) == Len(f.path) = WalkDepth /\ f.path[WalkDepth] = <<"5", ".", "j", "p", "g">>

\* the directory imports successfully: every walk of it returns Ok
ImportsOk(files) ==
    \A order \in WalkOrders(files) :
        import([exists |-> TRUE, files |-> files], NoStore, flags.scheme,
               flags.image_format, order, overflow_checks).res = "ok"

\* what the directory leaves in a fresh container, for the walks of it
ImportsOf(files) ==
    {import([exists |-> TRUE, files |-> files], NoStore, flags.scheme,
            flags.image_format, order, overflow_checks).db : order \in WalkOrders(files)}

\* C6: in a directory that imports successfully without it, a file 5.jpg at
\* depth 3 is rejected for its extension, the import still returns Ok, and
\* the container holds what the other entries leave and no row for 5.jpg.
C6_ExtensionMismatch ==
    \A i \in 1..Len(calls) :
        \A f \in disk[ExportedDir].files :
            (/\ FirstImport(i)
             /\ calls[i].input = ExportedDir
             /\ IsFiveJpg(f)
             /\ ImportsOk(disk[ExportedDir].files \ {f}))
            => /\ calls[i].res = "ok"
               /\ [path |-> f.path, error |-> "The filtered extention is different"]
                     \in calls[i].skipped
               /\ store[calls[i].output] \in ImportsOf(disk[ExportedDir].files \ {f})

\* the contents a grid file may have for an object: its text alone, or
\* wrapped in a call of cb
GridFileTextsOf(object) ==
    {ToJsonText(object), <<"c", "b", "(">> \o ToJsonText(object) \o <<")", ";">>}

\* the grid objects of C7: keys an array of strings, data an object that has
\* every key of keys that is not empty
KeyedGridObjects ==
    {o \in GridObjects :
        /\ {N_keys, N_data} \subseteq DOMAIN o.o
        /\ o.o[N_keys].k = "arr"
        /\ o.o[N_data].k = "obj"
        /\ \A key \in Range(o.o[N_keys].a) :
              key.k = "str" /\ (key.s # <<>> => key.s \in DOMAIN o.o[N_data].o)}

\* each content of a grid file of C7 with its object
KeyedGridFiles ==
    UNION {{<<t, o>> : t \in GridFileTextsOf(o)} : o \in KeyedGridObjects}

KeyedGridObjectOf ==
    [t \in {p[1] : p \in KeyedGridFiles} |-> (CHOOSE p \in KeyedGridFiles : p[1] = t)[2]]

\* the strings of a keys array that are not empty, in the array's order
NonEmptyKeys(keys) == SelectSeq([i \in 1..Len(keys) |-> keys[i].s], LAMBDA key : key # <<>>)

\* what C7 says of the container db after the import of the object o
GridStored(db, o) ==
    /\ Len(db.grids) = 1
    /\ inflate(db.grids[1].grid).text
          = ToJsonText(JObj([n \in DOMAIN o.o \ {N_data} |-> o.o[n]]))
    /\ [r \in 1..Len(db.grid_data) |-> <<db.grid_data[r].key_name, db.grid_data[r].key_json>>]
          = [r \in 1..Len(NonEmptyKeys(o.o[N_keys].a)) |->
               <<NonEmptyKeys(o.o[N_keys].a)[r],
                 ToJsonText(o.o[N_data].o[NonEmptyKeys(o.o[N_keys].a)[r]])>>]
    /\ \A r \in Range(db.grid_data) : Address(r) = Address(db.grids[1])

ValidTiles(c) ==
    /\ \A i, j \in 1..Len(c.tiles) : Address(c.tiles[i]) = Address(c.tiles[j]) => i = j
    /\ \A t \in Range(c.tiles) :
          t.zoom \in 0..30 /\ t.column >= 0 /\ t.row \in 0..(2 ^ t.zoom - 1)

\* <zoom>/<col>/<2^zoom - 1 - row>.<ext> under Xyz, <zoom>/<col>/<row>.<ext>
\* under Tms, the numbers in decimal
XyzTmsPath(scheme, t, ext) ==
    <<Dec(t.zoom), Dec(t.column),
      Dec(IF scheme = "Xyz" THEN 2 ^ t.zoom - 1 - t.row ELSE t.row) \o <<".">> \o ext>>

\* C11: under Xyz and Tms an export that has passed its validation writes
\* every tile row (zoom, col, row) with data b to one file of its own whose
\* content is b, at zoom/col/flip_y(zoom,row).ext under Xyz and at
\* zoom/col/row.ext under Tms, writes no other tile file, and writes
\* metadata.json.
C11_TilePathEncoding ==
    (/\ last.op = "export"
     /\ last.stages # <<>>
     /\ flags.scheme \in {"Xyz", "Tms"}
     /\ ValidTiles(store[last.input]))
    => /\ Len(last.stages) = Len(ExportStages)
       /\ \A t \in Range(store[last.input].tiles) :
             FileAt(disk[last.output].files,
                    XyzTmsPath(flags.scheme, t, get_extension(flags.image_format)))
                = t.data
       /\ Cardinality(TileFileSet(disk[last.output])) = Len(store[last.input].tiles)
       /\ HasFile(disk[last.output].files, <<MetadataJson>>)

\* the tiles (1, 0, 0) and (1, 0, 1) exported under Xyz: 1/0/1.png and 1/0/0.png
C11_Witness ==
    /\ last.op = "export"
    /\ last.res = "ok"
    /\ flags.scheme = "Xyz"
    /\ store[last.input].tiles = <<Tile(1, 0, 0, Blob1), Tile(1, 0, 1, Blob2)>>
    /\ FileAt(disk[last.output].files, <<<<"1">>, <<"0">>, Png(<<"1">>)>>) = Blob1
    /\ FileAt(disk[last.output].files, <<<<"1">>, <<"0">>, Png(<<"0">>)>>) = Blob2

\* the digits of n >= 0 in hexadecimal
RECURSIVE Hex(_)
Hex(n) == IF n < 16 THEN <<DigitChars[n + 1]>>
          ELSE Append(Hex(n \div 16), DigitChars[(n % 16) + 1])

\* L<zoom>/R<row of the directory in hexadecimal>/C<col in hexadecimal>.<ext>:
\* the row of the directory is the one import flips back to row
AgsPath(t, ext) ==
    <<<<"L">> \o Dec(t.zoom),
      <<"R">> \o Hex(2 ^ t.zoom - 1 - t.row),
      <<"C">> \o Hex(t.column) \o <<".">> \o ext>>

\* C12: under Ags an export writes every tile row (zoom, col, row) at
\* L<zoom>/R<row in hexadecimal>/C<col in hexadecimal>.<ext>, the row mapped by
\* the inverse of what import applies under Ags, and the import of the
\* exported directory under Ags stores the tile rows of the container again.
C12_AgsRoundTrip ==
    (/\ flags.scheme = "Ags"
     /\ ValidTiles(store[SourceStore])
     /\ RoundTripCalls(1)
     /\ calls[1].res = "ok")
    => /\ \A t \in Range(store[SourceStore].tiles) :
             FileAt(disk[ExportedDir].files, AgsPath(t, get_extension(flags.image_format)))
                = t.data
       /\ RoundTripCalls(2) =>
             /\ calls[2].res = "ok"
             /\ Range(store[ImportedStore].tiles) = Range(store[SourceStore].tiles)

\* the path of the grid file of a stored grid: zoom/col/row.grid.json, the row
\* flipped under Xyz
GridPath(scheme, g) ==
    <<Dec(g.zoom), Dec(g.column),
      GridJson(Dec(IF scheme = "Xyz" THEN 2 ^ g.zoom - 1 - g.row ELSE g.row))>>

\* the data object of a stored grid: a member for each grid_data row stored
\* at the grid's own (zoom, column, row), its value the row's key_json
StoredDataObject(c, g) ==
    JObj([n \in {r.key_name : r \in Range(DataOf(c, g))} |->
             from_str((CHOOSE r \in Range(DataOf(c, g)) : r.key_name = n).key_json).json])

\* C13: after an export, under every scheme and at every zoom level, the data
\* member of the file written for a grid row stored at (zoom, column, row)
\* holds exactly the grid_data rows stored at that (zoom, column, row).
C13_GridDataLookup ==
    (last.op = "export" /\ last.res = "ok") =>
        \A g \in Range(store[last.input].grids) :
            (g.zoom \in 0..30 /\ g.column >= 0 /\ g.row \in 0..(2 ^ g.zoom - 1)) =>
                /\ GridFileObject(disk[last.output].files, GridPath(flags.scheme, g)).ok
                /\ GridFileObject(disk[last.output].files, GridPath(flags.scheme, g)).json.o[N_data]
                      = StoredDataObject(store[last.input], g)

\* the <<key_name, key_json>> a grid object should leave in grid_data: one for
\* each string of its keys array that is not empty and is a member of its data
\* object, in the order of the array; none when keys is no array or data is
\* no object
ExpectedGridData(o) ==
    IF /\ {N_keys, N_data} \subseteq DOMAIN o
       /\ o[N_keys].k = "arr"
       /\ o[N_data].k = "obj"
    THEN LET present == SelectSeq(o[N_keys].a,
                                  LAMBDA key : /\ key.k = "str"
                                               /\ key.s # <<>>
                                               /\ key.s \in DOMAIN o[N_data].o)
         IN [r \in 1..Len(present) |->
                <<present[r].s, ToJsonText(o[N_data].o[present[r].s])>>]
    ELSE <<>>

\* C14: the import of a grid file whose keys array names a key that its data
\* object does not have skips that key: the grid row is stored, the other keys
\* get their grid_data rows, and the import returns Ok; a grid file without
\* data, or whose keys is no array, stores the grid row and no grid_data row.
C14_MissingKeyTolerated ==
    \A i \in 1..Len(calls) :
        (/\ FirstImport(i)
         /\ calls[i].input = ExportedDir
         /\ "walk" \in Range(calls[i].stages))
        => \A f \in disk[ExportedDir].files :
              (/\ IsGridFile(f)
               /\ GridFileObject(disk[ExportedDir].files, f.path).ok
               /\ GridFileObject(disk[ExportedDir].files, f.path).json.k = "obj")
              => /\ calls[i].res = "ok"
                 /\ Len(store[calls[i].output].grids) = 1
                 /\ [r \in 1..Len(store[calls[i].output].grid_data) |->
                        <<store[calls[i].output].grid_data[r].key_name,
                          store[calls[i].output].grid_data[r].key_json>>]
                       = ExpectedGridData(GridFileObject(disk[ExportedDir].files, f.path).json.o)

\* the digits a component is made of under a scheme: decimal, and under Ags
\* hexadecimal for the directory and the stem
IsNumeral(s, hexadecimal) ==
    /\ s # <<>>
    /\ \A i \in 1..Len(s) :
          \E d \in 1..(IF hexadecimal THEN 16 ELSE 10) : s[i] = DigitChars[d]
    /\ Len(StripZeros(s)) <= 7

\* the part of a file name before its first dot
StemOf(name) ==
    IF \E i \in 1..Len(name) : name[i] = "."
    THEN SubSeq(name, 1, (CHOOSE i \in 1..Len(name) :
                             name[i] = "." /\ \A j \in 1..(i - 1) : name[j] # ".") - 1)
    ELSE name

\* the part of a file name after its first dot
ExtensionOf(name) == SubSeq(name, Len(StemOf(name)) + 2, Len(name))

Dots(name) == Cardinality({i \in 1..Len(name) : name[i] = "."})

\* a depth-3 file whose name cannot be decoded: a zoom, a directory or a stem
\* that is no number, no dot in the name, more than two dots, or an extension
\* that is neither the image format's nor grid.json
Undecodable(f, scheme, ext) ==
    /\ Len(f.path) = WalkDepth
    /\ \/ ~IsNumeral(IF scheme = "Ags" THEN Remove(f.path[1], "L") ELSE f.path[1], FALSE)
       \/ ~IsNumeral(IF scheme = "Ags" THEN Remove(f.path[2], "R") ELSE f.path[2],
                     scheme = "Ags")
       \/ ~IsNumeral(IF scheme = "Ags" THEN Remove(StemOf(f.path[3]), "C")
                     ELSE StemOf(f.path[3]),
                     scheme = "Ags")
       \/ Dots(f.path[3]) = 0
       \/ Dots(f.path[3]) > 2
       \/ ExtensionOf(f.path[3]) \notin {ext, <<"g", "r", "i", "d", ".", "j", "s", "o", "n">>}

\* two tile files whose paths decode to the same numbers
SameAddress(f, g, ext) ==
    /\ f # g
    /\ Len(f.path) = WalkDepth /\ Len(g.path) = WalkDepth
    /\ ExtensionOf(f.path[3]) = ext /\ ExtensionOf(g.path[3]) = ext
    /\ StripZeros(f.path[1]) = StripZeros(g.path[1])
    /\ StripZeros(f.path[2]) = StripZeros(g.path[2])
    /\ StripZeros(StemOf(f.path[3])) = StripZeros(StemOf(g.path[3]))

\* C15: in a directory that imports successfully without it, a depth-3 file
\* that cannot be decoded (a zoom, directory or stem that is no number, a wrong
\* extension, no dot, more than two dots) is skipped: the import returns Ok and
\* the container holds what the other entries leave; of two tile files with
\* the same address one is skipped in the same way.
C15_PerEntryTolerance ==
    \A i \in 1..Len(calls) :
        (/\ FirstImport(i)
         /\ calls[i].input = ExportedDir
         /\ "walk" \in Range(calls[i].stages))
        => /\ \A f \in disk[ExportedDir].files :
                 (/\ Undecodable(f, flags.scheme, get_extension(flags.image_format))
                  /\ ImportsOk(disk[ExportedDir].files \ {f}))
                 => /\ calls[i].res = "ok"
                    /\ store[calls[i].output] \in ImportsOf(disk[ExportedDir].files \ {f})
           /\ \A f, g \in disk[ExportedDir].files :
                 (/\ SameAddress(f, g, get_extension(flags.image_format))
                  /\ ImportsOk(disk[ExportedDir].files \ {f})
                  /\ ImportsOk(disk[ExportedDir].files \ {g}))
                 => /\ calls[i].res = "ok"
                    /\ store[calls[i].output]
                          \in ImportsOf(disk[ExportedDir].files \ {f})
                              \cup ImportsOf(disk[ExportedDir].files \ {g})

\* the value of a directory's metadata.json is no object
MetadataNotObject(dir) == MetadataPairs(dir).ok /\ MetadataPairs(dir).json.k # "obj"

\* the value of a directory's metadata.json is an object with a member that is
\* no string
MetadataNotString(dir) ==
    /\ MetadataPairs(dir).ok
    /\ MetadataPairs(dir).json.k = "obj"
    /\ \E n \in DOMAIN MetadataPairs(dir).json.o : MetadataPairs(dir).json.o[n].k # "str"

\* C16: the import of a directory whose metadata.json is malformed - its value
\* no object, or an object with a value that is no string - returns an error
\* and inserts no tile and no grid.
C16_MalformedMetadataFails ==
    \A i \in 1..Len(calls) :
        (/\ FirstImport(i)
         /\ calls[i].input = ExportedDir
         /\ HasFile(disk[ExportedDir].files, <<MetadataJson>>)
         /\ MetadataNotObject(disk[ExportedDir]) \/ MetadataNotString(disk[ExportedDir]))
        => /\ calls[i].res = "err"
           /\ store[calls[i].output].tiles = <<>>
           /\ store[calls[i].output].grids = <<>>
           /\ store[calls[i].output].grid_data = <<>>

\* what import does before the walk fails for this directory and container:
\* the number of stages it gets through, 5 and more when none of them fails
StagesBeforeFailure(dir, db) ==
    IF ~dir.exists THEN 0
    ELSE IF db.schema THEN 3
    ELSE IF \/ ~HasFile(dir.files, <<MetadataJson>>)
            \/ ~MetadataPairs(dir).ok
            \/ MetadataNotString(dir)
    THEN 4
    ELSE 5

\* the walk of the directory meets a directory it cannot read
TraversalError(dir) ==
    \E f \in dir.files : f.content = Unreadable /\ Len(f.path) < WalkDepth

\* C17: import runs open, tuning, schema, metadata, walk, ANALYZE, VACUUM in
\* this order; when a stage before the walk fails it returns an error with no
\* later stage run and no tile or grid inserted; when the walk fails, ANALYZE
\* and VACUUM do not run; they run only after a walk that finished.
C17_ImportStageOrder ==
    [][last'.op = "import" =>
        /\ IsPrefix(last'.stages, ImportStages)
        /\ (last'.res = "ok") = (last'.stages = ImportStages)
        /\ StagesBeforeFailure(disk[last'.input], store[last'.output]) < 5 =>
              /\ last'.res = "err"
              /\ Len(last'.stages)
                    = StagesBeforeFailure(disk[last'.input], store[last'.output])
              /\ store'[last'.output].tiles = store[last'.output].tiles
              /\ store'[last'.output].grids = store[last'.output].grids
              /\ store'[last'.output].grid_data = store[last'.output].grid_data
        /\ (/\ StagesBeforeFailure(disk[last'.input], store[last'.output]) = 5
            /\ TraversalError(disk[last'.input])) =>
              /\ last'.res = "err"
              /\ last'.error = "invalid entry"
              /\ last'.stages = SubSeq(ImportStages, 1, 5)]_vars

\* a walk that inserted the tile and then met the directory it cannot read:
\* the import returned the walker's error and did not get to ANALYZE
C17_Witness ==
    /\ last.op = "import"
    /\ last.res = "err"
    /\ last.error = "invalid entry"
    /\ last.stages = <<"connect", "tune", "schema", "metadata", "walk">>
    /\ Len(store[last.output].tiles) = 1

\* a stored grid that export cannot write: its payload does not inflate, is
\* no JSON or is no object, or the key_json of one of its grid_data rows is
\* no JSON
FailingGrid(c, g) ==
    \/ ~inflate(g.grid).ok
    \/ ~IsObjectText(inflate(g.grid).text)
    \/ \E r \in Range(DataOf(c, g)) : ~from_str(r.key_json).ok

\* the grid rows of a container from its first failing one on, and those before
FailingFrom(c) ==
    {i \in 1..Len(c.grids) : \E j \in 1..i : FailingGrid(c, c.grids[j])}

ValidGrids(c) ==
    \A g \in Range(c.grids) :
        g.zoom \in 0..30 /\ g.column >= 0 /\ g.row \in 0..(2 ^ g.zoom - 1)

\* C18: export writes metadata.json, then the tile rows, then the grid rows,
\* and returns an error at the first grid row it cannot write: the files of
\* the metadata, of the tiles and of the grid rows before it are written, and
\* no file is written for that row or for any row after it.
C18_ExportAbortsAtFirstFailure ==
    (/\ last.op = "export"
     /\ last.stages # <<>>
     /\ ValidTiles(store[last.input])
     /\ ValidGrids(store[last.input]))
    => /\ IsPrefix(last.stages, ExportStages)
       /\ (last.res = "ok") = (FailingFrom(store[last.input]) = {})
       /\ last.res \in {"ok", "err"}
       /\ FailingFrom(store[last.input]) # {} =>
             /\ last.stages = ExportStages
             /\ HasFile(disk[last.output].files, <<MetadataJson>>)
             /\ Cardinality(TileFileSet(disk[last.output])) = Len(store[last.input].tiles)
       /\ \A i \in 1..Len(store[last.input].grids) :
             HasFile(disk[last.output].files,
                     GridPath(flags.scheme, store[last.input].grids[i]))
                = (i \notin FailingFrom(store[last.input]))

\* the first grid row has a payload that is no zlib stream and the second is
\* sound: export returns an error with the tile written and no grid file
C18_Witness ==
    /\ last.op = "export"
    /\ last.res = "err"
    /\ last.stages = ExportStages
    /\ Len(store[last.input].grids) = 2
    /\ store[last.input].grids[1].grid = Blob1
    /\ ~FailingGrid(store[last.input], store[last.input].grids[2])
    /\ TileFileSet(disk[last.output]) # {}
    /\ \A f \in disk[last.output].files : ~IsGridFile(f)

\* no two rows of the table share a (zoom, column, row)
UniqueAddresses(rows) ==
    \A i, j \in 1..Len(rows) : Address(rows[i]) = Address(rows[j]) => i = j

\* C19: after an import into a fresh container, whatever the files of the
\* directory, no two rows of tiles share a (zoom, column, row) and no two rows
\* of grids share a (zoom, column, row).
C19_UniqueTileAndGridAddresses ==
    \A i \in 1..Len(calls) :
        FirstImport(i) =>
            /\ UniqueAddresses(store[calls[i].output].tiles)
            /\ UniqueAddresses(store[calls[i].output].grids)

\* C20: in every state of an import into a fresh container, also after an
\* entry that failed, every row of grid_data has the (zoom, column, row) of a
\* row of grids: the row of grids is inserted before its rows of grid_data.
C20_GridDataReferencesGrid ==
    \A c \in StoreNames :
        \A r \in Range(store[c].grid_data) :
            \E g \in Range(store[c].grids) : Address(g) = Address(r)

\* an import that ended in the middle of a grid file, at a key its data does
\* not have: the row of grids and the grid_data row of the first key are stored
C20_Witness ==
    /\ last.op = "import"
    /\ last.res = "panic"
    /\ Len(store[last.output].grids) = 1
    /\ Len(store[last.output].grid_data) = 1
    /\ Address(store[last.output].grid_data[1]) = Address(store[last.output].grids[1])

\* the directory export_tile writes the file of a tile row into, and the stem
\* of that file's name
TileFileDir(scheme, t, checks) ==
    TileDir(scheme, t.zoom, t.column, ExportRow(scheme, t.zoom, t.row, checks).v)

TileFileStem(scheme, t, checks) ==
    StemOf(TileName(scheme, "Png", ExportRow(scheme, t.zoom, t.row, checks).v))

\* C21: after an export, under every scheme, for every address that has a
\* tile row and a grid row, the grid file is in the directory of the tile's
\* file and is named <stem of the tile's file>.grid.json.
C21_GridBesideTile ==
    (/\ last.op = "export"
     /\ last.res = "ok"
     /\ ValidTiles(store[last.input])
     /\ ValidGrids(store[last.input]))
    => \A t \in Range(store[last.input].tiles) :
          \A g \in Range(store[last.input].grids) :
              Address(t) = Address(g) =>
                  /\ HasFile(disk[last.output].files,
                             Append(TileFileDir(flags.scheme, t, overflow_checks),
                                    TileName(flags.scheme, flags.image_format,
                                             ExportRow(flags.scheme, t.zoom, t.row,
                                                       overflow_checks).v)))
                  /\ HasFile(disk[last.output].files,
                             Append(TileFileDir(flags.scheme, t, overflow_checks),
                                    GridJson(TileFileStem(flags.scheme, t, overflow_checks))))

\* the text of a grid file with its wrapper cb( ... ) or cb( ... ); taken off,
\* the text itself when it has none
WithoutWrapper(text) ==
    IF ~IsPrefix(<<"c", "b", "(">>, text) THEN text
    ELSE IF HasSuffix(text, <<")", ";">>) THEN SubSeq(text, 4, Len(text) - 2)
    ELSE IF HasSuffix(text, <<")">>) THEN SubSeq(text, 4, Len(text) - 1)
    ELSE text

\* C22: the import of a grid file whose content is the text of a JSON object
\* J, alone or wrapped as cb(J) or cb(J); , parses it as J, also when a string
\* of J is shaped like a call: the row of grids holds J without its data member.
C22_JsonpUnwrapExact ==
    \A i \in 1..Len(calls) :
        (/\ FirstImport(i)
         /\ calls[i].input = ExportedDir
         /\ "walk" \in Range(calls[i].stages))
        => \A f \in disk[ExportedDir].files :
              (IsGridFile(f) /\ IsObjectText(WithoutWrapper(f.content)))
              => /\ Len(store[calls[i].output].grids) = 1
                 /\ inflate(store[calls[i].output].grids[1].grid).text
                       = ToJsonText(JObj(Without(from_str(WithoutWrapper(f.content)).json.o,
                                                 N_data)))

\* a row of a table is a row of its zoom level: 0 <= row < 2^zoom
RowInRange(r) == r.row >= 0 /\ (r.zoom < 31 => r.row < 2 ^ r.zoom)

\* a depth-3 file whose numbers decode and whose flip leaves the u32 range:
\* the value flipped (the stem under Xyz, the directory under Ags) is 2^zoom
\* or more, or the zoom is 32 or more
FlipOverflows(f, scheme) ==
    /\ Len(f.path) = WalkDepth
    /\ scheme \in {"Xyz", "Ags"}
    /\ IsNumeral(f.path[1], FALSE)
    /\ IsNumeral(f.path[2], scheme = "Ags")
    /\ IsNumeral(StemOf(f.path[3]), scheme = "Ags")
    /\ \/ DigitsValue(f.path[1], 10) >= 32
       \/ /\ DigitsValue(f.path[1], 10) < 31
          /\ (IF scheme = "Xyz" THEN DigitsValue(StemOf(f.path[3]), 10)
              ELSE DigitsValue(f.path[2], 16)) >= 2 ^ DigitsValue(f.path[1], 10)

\* C23: under Xyz and Ags, in a directory that imports successfully without
\* it, an entry whose flip leaves the u32 range is skipped: the import returns
\* Ok and the container holds what the other entries leave; and every row an
\* Xyz import stores is a row of its zoom level.
C23_FlipOverflowSkipped ==
    \A i \in 1..Len(calls) :
        (/\ FirstImport(i)
         /\ calls[i].input = ExportedDir
         /\ "walk" \in Range(calls[i].stages))
        => /\ \A f \in disk[ExportedDir].files :
                 (/\ FlipOverflows(f, flags.scheme)
                  /\ ImportsOk(disk[ExportedDir].files \ {f}))
                 => /\ calls[i].res = "ok"
                    /\ store[calls[i].output] \in ImportsOf(disk[ExportedDir].files \ {f})
           /\ flags.scheme = "Xyz" =>
                 /\ \A t \in Range(store[calls[i].output].tiles) : RowInRange(t)
                 /\ \A g \in Range(store[calls[i].output].grids) : RowInRange(g)

\* an export into the directory has failed after it made the directory
FailedExportInto(output) ==
    \E j \in 1..Len(calls) :
        /\ calls[j].op = "export"
        /\ calls[j].output = output
        /\ calls[j].res # "ok"
        /\ calls[j].stages # <<>>

\* C24: an export that fails after it has made the output directory leaves
\* the directory and the files written so far; every later export into that
\* directory returns the already-exists error and writes nothing.
C24_FailedExportLeavesOutput ==
    [][last'.op = "export" =>
        /\ (last'.res # "ok" /\ last'.stages # <<>>) =>
              /\ disk'[last'.output].exists
              /\ Len(last'.stages) >= 4 =>
                    HasFile(disk'[last'.output].files, <<MetadataJson>>)
              /\ Len(last'.stages) = 5 =>
                    Cardinality(TileFileSet(disk'[last'.output]))
                       = Len(store[last'.input].tiles)
        /\ FailedExportInto(last'.output) =>
              /\ last'.res = "err"
              /\ last'.error = "Directory already exists"
              /\ last'.stages = <<>>
              /\ disk' = disk]_vars

\* an export that failed at a grid row, and a second export into the same
\* directory that was refused: metadata.json and the tile file are still there
C24_Witness ==
    /\ Len(calls) >= 2
    /\ calls[1].op = "export" /\ calls[2].op = "export"
    /\ calls[1].output = calls[2].output
    /\ calls[1].res = "err"
    /\ calls[1].stages = ExportStages
    /\ calls[2].error = "Directory already exists"
    /\ HasFile(disk[calls[1].output].files, <<MetadataJson>>)
    /\ TileFileSet(disk[calls[1].output]) # {}

============================================================================
